---- MODULE Spec2Model ----
(***************************************************************************)
(* better-axios: the AxiosApi client (wrapper.ts).  One client, one call   *)
(* in flight at a time.  A call is modelled by the steps the event loop    *)
(* runs separately: the synchronous part of makeRequest up to              *)
(* axiosInstance.request, the outbound interceptor, the transport, the     *)
(* inbound interceptor, and the continuation of makeRequest after its      *)
(* await (the success branch or the catch branch).  Token and default      *)
(* header writes may land between any two of these steps.                  *)
(***************************************************************************)
EXTENDS Naturals, Sequences, FiniteSets, TLC

VARIABLES
  config,          \* AxiosApi.config, after the constructor's defaults
  defaults,        \* axiosInstance.defaults without its headers: baseURL
                   \* and timeout
  instanceHeaders, \* headers given to axios.create (defaults.headers)
  common,          \* axiosInstance.defaults.headers.common
  authToken,       \* AxiosApi.authToken
  pc,              \* where the call in flight is; "requestInterceptor" and
                   \* "responseInterceptor" while the user's interceptor
                   \* is awaited
  call,            \* makeRequest's destructured requestConfig
  request,         \* the axios request config travelling outbound
  response,        \* the AxiosResponse travelling inbound
  error,           \* the rejection travelling to makeRequest's catch
  events,          \* what this call has done so far, in order
  result,          \* what the caller of the verb got
  awaited,         \* how the await in makeRequest settled
  hist,            \* history, for stating properties: carried (a request has
                   \* left with the auth header), tokenRead (the token the
                   \* outbound interceptor read for this call), tokenOp (the
                   \* last token write), tokenArg (its argument), issuedOp
                   \* (tokenOp when this call was issued), headerOp (the
                   \* last default header write) and issuedHeaderOp
                   \* (headerOp when this call was issued)
  service          \* the ApiService in front of the client, if any: its
                   \* basePath and the verb call it last forwarded

vars == <<config, defaults, instanceHeaders, common, authToken, pc, call, request,
          response, error, events, result, awaited, hist, service>>

clientVars == <<config, defaults, instanceHeaders, common, authToken>>

----------------------------------------------------------------------------
(* JavaScript values *)

Undefined == [t |-> "undefined"]
Null      == [t |-> "null"]
Str(s)    == [t |-> "string", v |-> s]
Num(n)    == [t |-> "number", v |-> n]

\* ToBoolean of the values used here
Truthy(v) ==
  /\ v.t \notin {"undefined", "null"}
  /\ ~(v.t = "string" /\ v.v = "")
  /\ ~(v.t = "number" /\ v.v = 0)

\* a || b
Or(a, b) == IF Truthy(a) THEN a ELSE b

\* an object with no own properties
Empty == [k \in {} |-> 0]

\* the ways an optional property f can be given: left out, or one of V
OptField(f, V) == {Empty} \cup {[k \in {f} |-> v] : v \in V}

\* object rest: r without the keys in S
Rest(r, S) == [k \in (DOMAIN r) \ S |-> r[k]]

\* delete o[k]
Delete(o, k) == [x \in (DOMAIN o) \ {k} |-> o[x]]

\* o[k] = v
Assign(o, k, v) == [x \in (DOMAIN o) \cup {k} |-> IF x = k THEN v ELSE o[x]]

----------------------------------------------------------------------------
(* Errors and responses *)

\* an AxiosError: isAxiosError is true; response is Undefined when none came
AxiosErr(msg, resp) == [t |-> "AxiosError", message |-> msg, response |-> resp]
ErrResponse(status, data) == [t |-> "response", status |-> status, data |-> data]
\* a parsed response body, with its message property (Undefined when absent)
Body(msg) == [t |-> "object", message |-> msg]
\* an Error that is not an AxiosError
PlainErr(msg) == [t |-> "Error", message |-> msg]
\* what error.message throws on null and undefined
TypeErr == [t |-> "TypeError", message |-> Str("Cannot read properties")]

\* axios.isAxiosError(e)
isAxiosError(e) == e.t = "AxiosError"

\* v.message for a value that is neither null nor undefined
Message(v) ==
  IF v.t \in {"AxiosError", "Error", "TypeError", "object"}
  THEN v.message ELSE Undefined

\* v?.message
OptMessage(v) == IF v.t \in {"undefined", "null"} THEN Undefined ELSE Message(v)

\* r?.status and r?.data
OptStatus(r) == IF r.t \in {"undefined", "null"} THEN Undefined ELSE r.status
OptData(r)   == IF r.t \in {"undefined", "null"} THEN Undefined ELSE r.data

Returned(v) == [threw |-> FALSE, value |-> v]
Thrown(v)   == [threw |-> TRUE, value |-> v]

\* createApiError with the transport's own message tried before the body's
createApiErrorOwnMessageFirst(err) ==
  IF isAxiosError(err)
  THEN Returned([message       |-> Or(Or(err.message,
                                         OptMessage(OptData(err.response))),
                                      Str("Request failed")),
                 statusCode    |-> Or(OptStatus(err.response), Num(0)),
                 originalError |-> err])
  ELSE IF err.t \in {"undefined", "null"}
  THEN Thrown(TypeErr)
  ELSE Returned([message       |-> Or(Message(err),
                                      Str("Unknown error occurred")),
                 statusCode    |-> Num(0),
                 originalError |-> err])

\* AxiosApi.createApiError: the ApiError it returns, or what it throws
createApiError(err) ==
  IF isAxiosError(err)
  THEN Returned([message       |-> Or(Or(OptMessage(OptData(err.response)),
                                         err.message),
                                      Str("Request failed")),
                 statusCode    |-> Or(OptStatus(err.response), Num(0)),
                 originalError |-> err])
  ELSE IF err.t \in {"undefined", "null"}
  THEN Thrown(TypeErr)          \* error.message of null or undefined
  ELSE Returned([message       |-> Or(Message(err),
                                      Str("Unknown error occurred")),
                 statusCode    |-> Num(0),
                 originalError |-> err])

AxiosResponse(data, status, statusText) ==
  [data |-> data, status |-> status, statusText |-> statusText]

\* the ApiResponse makeRequest builds from the transport's response
ApiResponse(resp) ==
  [data       |-> resp.data,
   success    |-> TRUE,
   statusCode |-> resp.status,
   message    |-> resp.statusText]


----------------------------------------------------------------------------
(* Construction *)

BaseURL == "https://example.com"

\* the defaults the constructor spreads the caller's config over
CtorDefaults ==
  [timeout |-> 10000, authTokenKey |-> "Authorization", authTokenPrefix |-> "Bearer "]

\* axios' own defaults.headers.common
AxiosCommon == [Accept |-> "application/json, text/plain, */*"]

\* no default header has been written yet
NoHeaderOp == [op |-> "none"]

\* no ApiService in front of the client
NoService == [t |-> "undefined"]

\* new AxiosApi(cfg)
Constructor(cfg) ==
  /\ config = cfg @@ CtorDefaults
  /\ defaults = [baseURL |-> (cfg @@ CtorDefaults).baseURL,
                 timeout |-> (cfg @@ CtorDefaults).timeout]
  /\ instanceHeaders = (IF "defaultHeaders" \in DOMAIN cfg THEN cfg.defaultHeaders ELSE Empty)
  /\ common = AxiosCommon
  /\ authToken = Null
  /\ pc = "idle"
  /\ call = Empty
  /\ request = Empty
  /\ response = Undefined
  /\ error = Undefined
  /\ events = <<>>
  /\ result = [kind |-> "none"]
  /\ awaited = "none"
  /\ hist = [carried |-> FALSE, tokenRead |-> Undefined, tokenOp |-> "none",
             tokenArg |-> Null, issuedOp |-> "none",
             headerOp |-> NoHeaderOp, issuedHeaderOp |-> NoHeaderOp]

AuthKey == config.authTokenKey

HasAuthHeader(req) == AuthKey \in DOMAIN req.headers

----------------------------------------------------------------------------
(* Auth token and default headers *)

setAuthToken(token) ==
  /\ authToken' = token
  /\ hist' = [hist EXCEPT !.tokenOp = "set", !.tokenArg = token]
  /\ UNCHANGED <<service, config, defaults, instanceHeaders, common, pc, call, request, response,
                 error, events, result, awaited>>

\* removeAuthToken that leaves the stored token in place
removeAuthTokenKeeps ==
  /\ hist' = [hist EXCEPT !.tokenOp = "removed", !.tokenArg = Null]
  /\ UNCHANGED <<service, config, defaults, instanceHeaders, common, authToken, pc, call,
                 request, response, error, events, result, awaited>>

removeAuthToken ==
  /\ authToken' = Null
  /\ hist' = [hist EXCEPT !.tokenOp = "removed", !.tokenArg = Null]
  /\ UNCHANGED <<service, config, defaults, instanceHeaders, common, pc, call, request, response,
                 error, events, result, awaited>>

getAuthToken == authToken

setDefaultHeader(key, value) ==
  /\ common' = Assign(common, key, value)
  /\ hist' = [hist EXCEPT !.headerOp = [op |-> "set", key |-> key, value |-> value]]
  /\ UNCHANGED <<service, config, defaults, instanceHeaders, authToken, pc, call, request,
                 response, error, events, result, awaited>>

removeDefaultHeader(key) ==
  /\ common' = Delete(common, key)
  /\ hist' = [hist EXCEPT !.headerOp = [op |-> "removed", key |-> key]]
  /\ UNCHANGED <<service, config, defaults, instanceHeaders, authToken, pc, call, request,
                 response, error, events, result, awaited>>

updateBaseURL(baseURL) ==
  /\ defaults' = [defaults EXCEPT !.baseURL = baseURL]
  /\ config' = [config EXCEPT !.baseURL = baseURL]
  /\ UNCHANGED <<service, instanceHeaders, common, authToken, pc, call, request,
                 response, error, events, result, awaited, hist>>

----------------------------------------------------------------------------
(* makeRequest, up to the await *)

HookOptions == {"customErrorHandler", "customSuccessHandler"}

\* the destructuring at the top of makeRequest; a default applies when the
\* property is undefined
Destructure(requestConfig) ==
  [useAuth |-> IF "useAuth" \in DOMAIN requestConfig
               THEN requestConfig.useAuth ELSE TRUE,
   skipGlobalHandlers |-> IF "skipGlobalHandlers" \in DOMAIN requestConfig
                          THEN requestConfig.skipGlobalHandlers ELSE FALSE]
  @@ [k \in (DOMAIN requestConfig) \cap HookOptions |-> requestConfig[k]]

\* ...axiosConfig
AxiosConfig(requestConfig) ==
  Rest(requestConfig, HookOptions \cup {"useAuth", "skipGlobalHandlers"})

\* the config makeRequest hands to axiosInstance.request
PrepareConfig(method, url, requestConfig) ==
  LET useAuth == Destructure(requestConfig).useAuth
      cfg     == AxiosConfig(requestConfig) @@ [method |-> method, url |-> url]
  IN  IF ~useAuth /\ "headers" \in DOMAIN cfg
      THEN Assign(cfg, "headers", Delete(cfg.headers, AuthKey))
      ELSE cfg

\* Axios.request before its interceptor chain: the call's config over the
\* instance's defaults
MergeDefaults(cfg) ==
  Assign(cfg @@ defaults, "headers",
         (IF "headers" \in DOMAIN cfg THEN cfg.headers ELSE Empty)
           @@ instanceHeaders @@ common)

MakeRequest(method, url, requestConfig) ==
  /\ pc \in {"idle", "done"}
  /\ call' = Destructure(requestConfig)
  /\ request' = MergeDefaults(PrepareConfig(method, url, requestConfig))
  /\ pc' = "submitted"
  /\ response' = Undefined
  /\ error' = Undefined
  /\ events' = <<[e |-> "request", options |-> requestConfig,
                  config |-> MergeDefaults(PrepareConfig(method, url, requestConfig))]>>
  /\ result' = [kind |-> "pending"]
  /\ awaited' = "pending"
  /\ hist' = [hist EXCEPT !.tokenRead = Undefined, !.issuedOp = hist.tokenOp,
                           !.issuedHeaderOp = hist.headerOp]
  /\ UNCHANGED <<config, defaults, instanceHeaders, common, authToken>>

\* a parameter's default value applies when the argument is undefined
Default(arg, dflt) ==
  IF "t" \in DOMAIN arg /\ arg.t = "undefined" THEN dflt ELSE arg

\* the verbs; which ApiService forwarded the call, if any, is the caller's
\* to say
Get(url, cfg)        == MakeRequest("GET", url, Default(cfg, Empty))
Post(url, data, cfg) == MakeRequest("POST", url, [data |-> data] @@ Default(cfg, Empty))
Put(url, data, cfg)  == MakeRequest("PUT", url, [data |-> data] @@ Default(cfg, Empty))
Patch(url, data, cfg) == MakeRequest("PATCH", url, [data |-> data] @@ Default(cfg, Empty))
DeleteVerb(url, cfg) == MakeRequest("DELETE", url, Default(cfg, Empty))

----------------------------------------------------------------------------
(* The outbound interceptor *)

\* what a user-supplied requestInterceptor may do with the config it is given
RequestInterceptorBehaviours == {"pass", "addHeader", "setAuth", "dropAuth", "reject"}

InterceptorErr == PlainErr(Str("interceptor failed"))

\* the behaviours in which a user interceptor throws or returns a rejected
\* promise
Rejections == {"reject", "rejectUndefined", "rejectNull"}

UserRequestInterceptor(b, cfg) ==
  CASE b = "pass"      -> Returned(cfg)
    [] b = "addHeader" -> Returned(Assign(cfg, "headers",
                                          Assign(cfg.headers, "X-App-Version", "1.0.0")))
    [] b = "setAuth"   -> Returned(Assign(cfg, "headers",
                                          Assign(cfg.headers, AuthKey, "overridden")))
    [] b = "dropAuth"  -> Returned(Assign(cfg, "headers", Delete(cfg.headers, AuthKey)))
    [] b = "reject"    -> Thrown(InterceptorErr)
    [] b = "rejectUndefined" -> Thrown(Undefined)   \* Promise.reject()
    [] b = "rejectNull"      -> Thrown(Null)        \* throw null

\* the stamp without its test of the token
StampAuthUnguarded(cfg) ==
  Assign(cfg, "headers",
         Assign(cfg.headers, AuthKey,
                config.authTokenPrefix
                  \o (IF authToken.t = "string" THEN authToken.v ELSE "null")))

\* the stamp decided when the verb was called: a request issued while no
\* token was set is not stamped
StampAuthAtIssue(cfg) ==
  IF hist.issuedOp = "set" /\ Truthy(authToken)
  THEN Assign(cfg, "headers",
              Assign(cfg.headers, AuthKey, config.authTokenPrefix \o authToken.v))
  ELSE cfg

\* the stamp that leaves a header already present alone
StampAuthIfAbsent(cfg) ==
  IF Truthy(authToken) /\ AuthKey \notin DOMAIN cfg.headers
  THEN Assign(cfg, "headers",
              Assign(cfg.headers, AuthKey, config.authTokenPrefix \o authToken.v))
  ELSE cfg

\* the stamp with the token alone, without the configured prefix
StampAuthNoPrefix(cfg) ==
  IF Truthy(authToken)
  THEN Assign(cfg, "headers", Assign(cfg.headers, AuthKey, authToken.v))
  ELSE cfg

\* the header stamp of the outbound interceptor; inside an axios interceptor
\* config.headers is always an object
StampAuth(cfg) ==
  IF Truthy(authToken)
  THEN Assign(cfg, "headers",
              Assign(cfg.headers, AuthKey, config.authTokenPrefix \o authToken.v))
  ELSE cfg

\* the outbound interceptor handing the user's interceptor the config as the
\* call submitted it, the stamp left out
RequestInterceptorStepUnstamped ==
  /\ pc = "submitted"
  /\ hist' = [hist EXCEPT !.tokenRead = authToken,
                          !.carried = @ \/ ("requestInterceptor" \notin DOMAIN config
                                             /\ HasAuthHeader(StampAuth(request)))]
  /\ IF "requestInterceptor" \in DOMAIN config
     THEN /\ UNCHANGED request
          /\ events' = Append(events, [e |-> "requestInterceptor",
                                       given |-> request.headers,
                                       did |-> "pending"])
          /\ pc' = "requestInterceptor"
     ELSE /\ request' = StampAuth(request)
          /\ UNCHANGED events
          /\ pc' = "sent"
  /\ UNCHANGED <<service, config, defaults, instanceHeaders, common, authToken, call,
                 response, error, result, awaited>>

\* the interceptor registered on interceptors.request, up to its await: the
\* stamp, then the call of the user's interceptor, whose result is awaited;
\* with no user interceptor the stamped config leaves for the transport
RequestInterceptorStep ==
  /\ pc = "submitted"
  /\ request' = StampAuth(request)
  /\ hist' = [hist EXCEPT !.tokenRead = authToken,
                          !.carried = @ \/ ("requestInterceptor" \notin DOMAIN config
                                             /\ HasAuthHeader(StampAuth(request)))]
  /\ IF "requestInterceptor" \in DOMAIN config
     THEN /\ events' = Append(events, [e |-> "requestInterceptor",
                                       given |-> StampAuth(request).headers,
                                       did |-> "pending"])
          /\ pc' = "requestInterceptor"
     ELSE /\ UNCHANGED events
          /\ pc' = "sent"
  /\ UNCHANGED <<service, config, defaults, instanceHeaders, common, authToken, call,
                 response, error, result, awaited>>

\* the await of the user's interceptor settles: b is what the interceptor
\* did with the config it was given; its return value leaves for the
\* transport, its rejection rejects the call
RequestInterceptorSettles(b) ==
  /\ pc = "requestInterceptor"
  /\ LET out == UserRequestInterceptor(b, request)
     IN  /\ events' = [events EXCEPT ![Len(events)].did = b]
         /\ IF out.threw
            THEN /\ error' = out.value
                 /\ pc' = "rejected"
                 /\ awaited' = "rejected"
                 /\ UNCHANGED <<request, hist>>
            ELSE /\ request' = out.value
                 /\ pc' = "sent"
                 /\ hist' = [hist EXCEPT !.carried = @ \/ HasAuthHeader(out.value)]
                 /\ UNCHANGED <<error, awaited>>
  /\ UNCHANGED <<service, config, defaults, instanceHeaders, common, authToken, call,
                 response, result>>

----------------------------------------------------------------------------
(* The transport *)

TransportResponds(resp) ==
  /\ pc = "sent"
  /\ response' = resp
  /\ pc' = "received"
  /\ events' = Append(events, [e |-> "transport", sent |-> request, ok |-> TRUE, got |-> resp])
  /\ UNCHANGED <<service, config, defaults, instanceHeaders, common, authToken, call, request, error,
                 result, awaited, hist>>

TransportFails(err) ==
  /\ pc = "sent"
  /\ error' = err
  /\ pc' = "rejected"
  /\ awaited' = "rejected"
  /\ events' = Append(events, [e |-> "transport", sent |-> request, ok |-> FALSE, got |-> err])
  /\ UNCHANGED <<service, config, defaults, instanceHeaders, common, authToken, call, request, response,
                 result, hist>>

----------------------------------------------------------------------------
(* The inbound interceptor *)

ResponseInterceptorBehaviours == {"pass", "rewrite", "reject"}

Rewritten == AxiosResponse(Str("unwrapped"), Num(202), Str("Rewritten"))

UserResponseInterceptor(b, resp) ==
  CASE b = "pass"    -> Returned(resp)
    [] b = "rewrite" -> Returned(Rewritten)
    [] b = "reject"  -> Thrown(InterceptorErr)
    [] b = "rejectUndefined" -> Thrown(Undefined)   \* Promise.reject()
    [] b = "rejectNull"      -> Thrown(Null)        \* throw null

\* the interceptor registered on interceptors.response, up to its await:
\* the call of the user's interceptor, whose result is awaited; with no user
\* interceptor the response goes on to makeRequest
ResponseInterceptorStep ==
  /\ pc = "received"
  /\ IF "responseInterceptor" \in DOMAIN config
     THEN /\ events' = Append(events, [e |-> "responseInterceptor",
                                       given |-> response, did |-> "pending"])
          /\ pc' = "responseInterceptor"
          /\ UNCHANGED awaited
     ELSE /\ UNCHANGED events
          /\ pc' = "resolved"
          /\ awaited' = "resolved"
  /\ UNCHANGED <<service, config, defaults, instanceHeaders, common, authToken, call,
                 request, response, error, result, hist>>

\* the settling of the user's interceptor with its return value dropped
ResponseInterceptorSettlesDiscards(b) ==
  /\ pc = "responseInterceptor"
  /\ LET out == UserResponseInterceptor(b, response)
     IN  /\ events' = [events EXCEPT ![Len(events)].did = b]
         /\ IF out.threw
            THEN /\ error' = out.value
                 /\ pc' = "rejected"
                 /\ awaited' = "rejected"
                 /\ UNCHANGED response
            ELSE /\ UNCHANGED response
                 /\ pc' = "resolved"
                 /\ awaited' = "resolved"
                 /\ UNCHANGED error
  /\ UNCHANGED <<service, config, defaults, instanceHeaders, common, authToken, call,
                 request, result, hist>>

\* the await of the user's interceptor settles: b is what the interceptor
\* did with the response it was given; its return value goes on to
\* makeRequest, its rejection rejects the call
ResponseInterceptorSettles(b) ==
  /\ pc = "responseInterceptor"
  /\ LET out == UserResponseInterceptor(b, response)
     IN  /\ events' = [events EXCEPT ![Len(events)].did = b]
         /\ IF out.threw
            THEN /\ error' = out.value
                 /\ pc' = "rejected"
                 /\ awaited' = "rejected"
                 /\ UNCHANGED response
            ELSE /\ response' = out.value
                 /\ pc' = "resolved"
                 /\ awaited' = "resolved"
                 /\ UNCHANGED error
  /\ UNCHANGED <<service, config, defaults, instanceHeaders, common, authToken, call,
                 request, result, hist>>

----------------------------------------------------------------------------
(* makeRequest, after the await *)

NoHook == "none"

\* which success hook makeRequest calls
SuccessHook ==
  IF ~call.skipGlobalHandlers
  THEN IF "customSuccessHandler" \in DOMAIN call THEN "customSuccessHandler"
       ELSE IF "globalSuccessHandler" \in DOMAIN config THEN "globalSuccessHandler"
       ELSE NoHook
  ELSE NoHook

\* which error hook makeRequest calls
ErrorHook ==
  IF ~call.skipGlobalHandlers
  THEN IF "customErrorHandler" \in DOMAIN call THEN "customErrorHandler"
       ELSE IF "globalErrorHandler" \in DOMAIN config THEN "globalErrorHandler"
       ELSE NoHook
  ELSE NoHook

\* what a hook throws when it throws
HookErr(h) == PlainErr(Str(h))

HookCall(h, arg, threw) == [e |-> "hook", hook |-> h, arg |-> arg, threw |-> threw]

Raise(v)  == [kind |-> "raised", value |-> v]
Return(v) == [kind |-> "returned", value |-> v]

\* the catch block with the error hook's own exception swallowed
CatchGuardingHook(err, hookThrows) ==
  LET built == createApiError(err)
      h     == ErrorHook
  IN  IF built.threw
      THEN [events |-> <<>>, result |-> Raise(built.value)]
      ELSE IF h = NoHook
      THEN [events |-> <<[e |-> "apiError", value |-> built.value]>>,
            result |-> Raise(built.value)]
      ELSE [events |-> <<[e |-> "apiError", value |-> built.value],
                         HookCall(h, built.value, hookThrows)>>,
            result |-> Raise(built.value)]

\* the catch block that rethrows the caught value as it is under
\* skipGlobalHandlers
CatchRawUnderSkip(err, hookThrows) ==
  LET built == createApiError(err)
      h     == ErrorHook
  IN  IF built.threw
      THEN [events |-> <<>>, result |-> Raise(built.value)]
      ELSE IF call.skipGlobalHandlers
      THEN [events |-> <<[e |-> "apiError", value |-> built.value]>>,
            result |-> Raise(err)]
      ELSE IF h = NoHook
      THEN [events |-> <<[e |-> "apiError", value |-> built.value]>>,
            result |-> Raise(built.value)]
      ELSE [events |-> <<[e |-> "apiError", value |-> built.value],
                         HookCall(h, built.value, hookThrows)>>,
            result |-> IF hookThrows THEN Raise(HookErr(h)) ELSE Raise(built.value)]

\* the catch block of makeRequest on the caught value err; hookThrows says
\* whether the error hook it calls throws.  The events of the block, and what
\* leaves it.
Catch(err, hookThrows) ==
  LET built == createApiError(err)
      h     == ErrorHook
  IN  IF built.threw
      THEN [events |-> <<>>, result |-> Raise(built.value)]
      ELSE IF h = NoHook
      THEN [events |-> <<[e |-> "apiError", value |-> built.value]>>,
            result |-> Raise(built.value)]
      ELSE [events |-> <<[e |-> "apiError", value |-> built.value],
                         HookCall(h, built.value, hookThrows)>>,
            result |-> IF hookThrows THEN Raise(HookErr(h)) ELSE Raise(built.value)]

\* the await resolved: the rest of the try block, and the catch block when the
\* success hook throws
Resolved(successThrows, errorThrows) ==
  /\ pc = "resolved"
  /\ LET apiResponse == ApiResponse(response)
         h           == SuccessHook
         built       == <<[e |-> "apiResponse", value |-> apiResponse]>>
     IN  /\ (h = NoHook) => ~successThrows
         /\ IF h = NoHook
            THEN /\ ~errorThrows
                 /\ events' = events \o built
                 /\ result' = Return(apiResponse)
                 /\ UNCHANGED error
            ELSE IF ~successThrows
            THEN /\ ~errorThrows
                 /\ events' = events \o built \o <<HookCall(h, apiResponse, FALSE)>>
                 /\ result' = Return(apiResponse)
                 /\ UNCHANGED error
            ELSE LET c == Catch(HookErr(h), errorThrows)
                 IN  /\ (ErrorHook = NoHook) => ~errorThrows
                     /\ events' = events \o built
                                    \o <<HookCall(h, apiResponse, TRUE)>> \o c.events
                     /\ result' = c.result
                     /\ error' = HookErr(h)
  /\ pc' = "done"
  /\ UNCHANGED <<service, config, defaults, instanceHeaders, common, authToken, call, request, response,
                 awaited, hist>>

\* the await rejected: the catch block
Rejected(errorThrows) ==
  /\ pc = "rejected"
  /\ (ErrorHook = NoHook) => ~errorThrows
  /\ LET c == Catch(error, errorThrows)
     IN  /\ events' = events \o c.events
         /\ result' = c.result
  /\ pc' = "done"
  /\ UNCHANGED <<service, config, defaults, instanceHeaders, common, authToken, call, request, response,
                 error, awaited, hist>>

----------------------------------------------------------------------------
(* ApiService: verbs scoped under a base path *)

\* s.startsWith("/")
StartsWithSlash(s) == Len(s) >= 1 /\ SubSeq(s, 1, 1) = "/"

\* s.slice(1)
Slice1(s) == SubSeq(s, 2, Len(s))

\* s.replace(/\/+/g, "/")
RECURSIVE CollapseSlashes(_)
CollapseSlashes(s) ==
  IF Len(s) <= 1 THEN s
  ELSE IF SubSeq(s, 1, 1) = "/" /\ SubSeq(s, 2, 2) = "/"
  THEN CollapseSlashes(Slice1(s))
  ELSE SubSeq(s, 1, 1) \o CollapseSlashes(Slice1(s))

\* the basePath field the ApiService constructor stores
BasePathField(basePath) ==
  LET given == IF basePath = Undefined THEN "" ELSE basePath.v
  IN  IF StartsWithSlash(given) THEN given ELSE "/" \o given

\* no verb forwarded yet
NoVia == [verb |-> "none"]

\* new SomeService(api, basePath), on the client already constructed
ApiServiceConstructor(basePath) ==
  service = [basePath |-> BasePathField(basePath), given |-> basePath, via |-> NoVia]

\* buildUrl without the replace
buildUrlNoCollapse(basePath, endpoint) ==
  LET cleanEndpoint == IF StartsWithSlash(endpoint) THEN Slice1(endpoint)
                       ELSE endpoint
  IN  basePath \o "/" \o cleanEndpoint

\* ApiService.buildUrl, with this.basePath as its first argument
buildUrl(basePath, endpoint) ==
  LET cleanEndpoint == IF StartsWithSlash(endpoint) THEN Slice1(endpoint)
                       ELSE endpoint
  IN  CollapseSlashes(basePath \o "/" \o cleanEndpoint)

\* the verb call the service forwarded, for stating properties
Via(verb, endpoint, data, cfg) ==
  [service EXCEPT !.via = [verb |-> verb, endpoint |-> endpoint, data |-> data,
                           options |-> cfg]]

\* ApiService.post with the data left behind
ServicePostNoData(endpoint, data, cfg) ==
  /\ Post(buildUrl(service.basePath, endpoint), Undefined, cfg)
  /\ service' = Via("post", endpoint, data, cfg)

\* the protected verbs of ApiService
ServiceGet(endpoint, cfg) ==
  /\ Get(buildUrl(service.basePath, endpoint), cfg)
  /\ service' = Via("get", endpoint, Undefined, cfg)

ServicePost(endpoint, data, cfg) ==
  /\ Post(buildUrl(service.basePath, endpoint), data, cfg)
  /\ service' = Via("post", endpoint, data, cfg)

ServicePut(endpoint, data, cfg) ==
  /\ Put(buildUrl(service.basePath, endpoint), data, cfg)
  /\ service' = Via("put", endpoint, data, cfg)

ServicePatch(endpoint, data, cfg) ==
  /\ Patch(buildUrl(service.basePath, endpoint), data, cfg)
  /\ service' = Via("patch", endpoint, data, cfg)

ServiceDelete(endpoint, cfg) ==
  /\ DeleteVerb(buildUrl(service.basePath, endpoint), cfg)
  /\ service' = Via("delete", endpoint, Undefined, cfg)

----------------------------------------------------------------------------
(* Inputs *)

URLs == {"/test"}

\* the data argument of post, put and patch
Payloads == {Undefined, [t |-> "object", name |-> "test"]}

Responses ==
  { AxiosResponse([t |-> "object", message |-> Str("Success")], Num(200), Undefined),
    AxiosResponse([t |-> "object", id |-> Num(1)], Num(201), Str("Created")) }

\* what the transport rejects with: a status outside 2xx, or no response
TransportErrors ==
  { AxiosErr(Str("Request failed with status code 404"),
             ErrResponse(Num(404), Body(Str("Not found")))),
    AxiosErr(Str("Request failed with status code 500"),
             ErrResponse(Num(500), Str("<html>"))),
    AxiosErr(Str("Network Error"), Undefined) }

\* single answers of the transport, for the specifications whose subject is
\* not the answer
OkResponses == {AxiosResponse(Str("ok"), Num(200), Str("OK"))}

NetworkErrors == {AxiosErr(Str("Network Error"), Undefined)}

NotFoundErrors ==
  {AxiosErr(Str("Request failed with status code 404"),
            ErrResponse(Num(404), Body(Str("Not found"))))}

\* the constructor configs: every choice of hooks and interceptors
Configs ==
  { [baseURL |-> BaseURL] @@ a @@ b @@ c @@ d :
      a \in OptField("globalErrorHandler", {"globalErrorHandler"}),
      b \in OptField("globalSuccessHandler", {"globalSuccessHandler"}),
      c \in OptField("requestInterceptor", {"requestInterceptor"}),
      d \in OptField("responseInterceptor", {"responseInterceptor"}) }

\* the per-call options about hooks
HookRequestConfigs ==
  { a @@ b @@ c :
      a \in OptField("skipGlobalHandlers", BOOLEAN),
      b \in OptField("customSuccessHandler", {"customSuccessHandler"}),
      c \in OptField("customErrorHandler", {"customErrorHandler"}) }

----------------------------------------------------------------------------
(* The call pipeline with its hooks *)

Init == \E cfg \in Configs : Constructor(cfg) /\ service = NoService

Next ==
  \/ \E u \in URLs, rc \in HookRequestConfigs : Get(u, rc) /\ UNCHANGED service
  \/ \E u \in URLs, d \in Payloads, rc \in HookRequestConfigs : Post(u, d, rc) /\ UNCHANGED service
  \/ \E u \in URLs, d \in Payloads, rc \in HookRequestConfigs : Put(u, d, rc) /\ UNCHANGED service
  \/ \E u \in URLs, d \in Payloads, rc \in HookRequestConfigs : Patch(u, d, rc) /\ UNCHANGED service
  \/ \E u \in URLs, rc \in HookRequestConfigs : DeleteVerb(u, rc) /\ UNCHANGED service
  \/ RequestInterceptorStep
  \/ \E b \in RequestInterceptorBehaviours : RequestInterceptorSettles(b)
  \/ \E r \in Responses : TransportResponds(r)
  \/ \E e \in TransportErrors : TransportFails(e)
  \/ ResponseInterceptorStep
  \/ \E b \in ResponseInterceptorBehaviours : ResponseInterceptorSettles(b)
  \/ \E s \in BOOLEAN, e \in BOOLEAN : Resolved(s, e)
  \/ \E e \in BOOLEAN : Rejected(e)

Spec == Init /\ [][Next]_vars

----------------------------------------------------------------------------
(* The call pipeline with interceptors that reject with any value *)

\* a user interceptor that passes, throws an Error, or rejects with no value
RejectingBehaviours == {"pass", "reject", "rejectUndefined", "rejectNull"}

NextRejections ==
  \/ \E u \in URLs, rc \in HookRequestConfigs : Get(u, rc) /\ UNCHANGED service
  \/ RequestInterceptorStep
  \/ \E b \in RejectingBehaviours : RequestInterceptorSettles(b)
  \/ \E r \in OkResponses : TransportResponds(r)
  \/ \E e \in NotFoundErrors : TransportFails(e)
  \/ ResponseInterceptorStep
  \/ \E b \in RejectingBehaviours : ResponseInterceptorSettles(b)
  \/ \E s \in BOOLEAN, e \in BOOLEAN : Resolved(s, e)
  \/ \E e \in BOOLEAN : Rejected(e)

SpecRejections == Init /\ [][NextRejections]_vars

----------------------------------------------------------------------------
(* The auth header: token and default header writes around the calls *)

NumTokens == 2

TokenName(i) == "token" \o ToString(i)

\* the arguments of setAuthToken: the empty string, and NumTokens others
Tokens == {Str("")} \cup {Str(TokenName(i)) : i \in 1..NumTokens}

CustomAuth == [authTokenKey |-> "X-Token", authTokenPrefix |-> ""]

AuthConfigs ==
  { [baseURL |-> BaseURL] @@ a @@ b :
      a \in {Empty, CustomAuth},
      b \in OptField("requestInterceptor", {"requestInterceptor"}) }

\* the per-call options about the auth header
AuthRequestConfigs ==
  { a @@ b :
      a \in OptField("useAuth", BOOLEAN),
      b \in OptField("headers", {Empty, [k \in {AuthKey} |-> "manual"]}) }

AuthInterceptorBehaviours == {"pass", "setAuth", "dropAuth", "reject"}

InitAuth == \E cfg \in AuthConfigs : Constructor(cfg) /\ service = NoService

NextAuth ==
  \/ \E t \in Tokens : setAuthToken(t)
  \/ removeAuthToken
  \/ setDefaultHeader(AuthKey, "value")
  \/ removeDefaultHeader(AuthKey)
  \/ \E u \in URLs, rc \in AuthRequestConfigs : Get(u, rc) /\ UNCHANGED service
  \/ \E u \in URLs, rc \in AuthRequestConfigs : Post(u, Undefined, rc) /\ UNCHANGED service
  \/ RequestInterceptorStep
  \/ \E b \in AuthInterceptorBehaviours : RequestInterceptorSettles(b)
  \/ \E r \in OkResponses : TransportResponds(r)
  \/ \E e \in NetworkErrors : TransportFails(e)
  \/ ResponseInterceptorStep
  \/ Resolved(FALSE, FALSE)
  \/ Rejected(FALSE)

SpecAuth == InitAuth /\ [][NextAuth]_vars

----------------------------------------------------------------------------
(* Properties of the hooks and of what the caller gets *)

Finished == pc = "done"

\* how many times hook h was called during this call, and with what
HookCount(h) ==
  Cardinality({i \in DOMAIN events : events[i].e = "hook" /\ events[i].hook = h})
HookArgs(h) ==
  {events[i].arg : i \in {j \in DOMAIN events : events[j].e = "hook" /\ events[j].hook = h}}

CustomSuccess == "customSuccessHandler" \in DOMAIN call
CustomError   == "customErrorHandler" \in DOMAIN call
GlobalSuccess == "globalSuccessHandler" \in DOMAIN config
GlobalError   == "globalErrorHandler" \in DOMAIN config

\* the success branch ran: the await resolved
SuccessOutcome == awaited = "resolved"
\* the outcome is a failure: the await rejected, with whatever value
FailureOutcome == awaited = "rejected"

\* the transport settled this call's request
TransportSettled == \E i \in DOMAIN events : events[i].e = "transport"
\* the transport answered outside 2xx, or not at all
TransportFailed == TransportSettled /\ awaited = "rejected" /\ isAxiosError(error)

IsApiResponse(v) == DOMAIN v = {"data", "success", "statusCode", "message"}
IsApiError(v)    == DOMAIN v = {"message", "statusCode", "originalError"}

\* C2: with skipGlobalHandlers true and a custom handler supplied for the
\* outcome that occurs, that custom handler is called exactly once and the
\* global handler of that outcome is not called.
C2_CustomHookFiresUnderSkip ==
  (Finished /\ call.skipGlobalHandlers) =>
    /\ (SuccessOutcome /\ CustomSuccess) =>
         (HookCount("customSuccessHandler") = 1 /\ HookCount("globalSuccessHandler") = 0)
    /\ (TransportFailed /\ CustomError) =>
         (HookCount("customErrorHandler") = 1 /\ HookCount("globalErrorHandler") = 0)

\* C3: with skipGlobalHandlers false, for each outcome that occurs the custom
\* handler is called if supplied, otherwise the global handler if configured,
\* otherwise none; the custom and the global handler of one outcome are never
\* both called, and the chosen handler is called exactly once, with the call's
\* ApiResponse or ApiError.
C3_HookSelection ==
  (Finished /\ ~call.skipGlobalHandlers) =>
    /\ HookCount("customSuccessHandler") = (IF SuccessOutcome /\ CustomSuccess THEN 1 ELSE 0)
    /\ HookCount("globalSuccessHandler") =
         (IF SuccessOutcome /\ ~CustomSuccess /\ GlobalSuccess THEN 1 ELSE 0)
    /\ HookCount("customErrorHandler") = (IF FailureOutcome /\ CustomError THEN 1 ELSE 0)
    /\ HookCount("globalErrorHandler") =
         (IF FailureOutcome /\ ~CustomError /\ GlobalError THEN 1 ELSE 0)
    /\ HookCount("customSuccessHandler") + HookCount("globalSuccessHandler") <= 1
    /\ HookCount("customErrorHandler") + HookCount("globalErrorHandler") <= 1
    /\ \A a \in HookArgs("customSuccessHandler") \cup HookArgs("globalSuccessHandler") :
         a = [data |-> response.data, success |-> TRUE,
              statusCode |-> response.status, message |-> response.statusText]
    /\ \A a \in HookArgs("customErrorHandler") \cup HookArgs("globalErrorHandler") :
         IsApiError(a) /\ a.originalError = error

\* C4: with skipGlobalHandlers true and no custom handler, neither global
\* handler is called and the outcome still reaches the caller: the ApiResponse
\* is returned on success, the ApiError is raised on failure.
C4_SkipWithoutCustom ==
  (Finished /\ call.skipGlobalHandlers /\ ~CustomSuccess /\ ~CustomError) =>
    /\ HookCount("globalSuccessHandler") = 0
    /\ HookCount("globalErrorHandler") = 0
    /\ SuccessOutcome =>
         /\ result.kind = "returned"
         /\ IsApiResponse(result.value)
         /\ result.value.data = response.data
    /\ FailureOutcome =>
         /\ result.kind = "raised"
         /\ IsApiError(result.value)
         /\ result.value.originalError = error

\* C5: every verb call that settles gives the caller exactly one of a returned
\* ApiResponse and a raised ApiError, never a raw exception, whatever the
\* hooks, the interceptors and the transport do.
C5_ResponseOrApiError ==
  (Finished /\ TransportSettled) =>
    \/ result.kind = "returned" /\ IsApiResponse(result.value)
    \/ result.kind = "raised" /\ IsApiError(result.value)

\* C6: on a failed round trip the ApiError is built first, then the applicable
\* error hook (if any) is called, and only then the ApiError is raised to the
\* caller; the call never resolves with a value. The applicable hook is the
\* one the specification names: the custom one when supplied, with or without
\* skipGlobalHandlers, otherwise the global one unless skipped.
C6_BuildHookRaise ==
  (Finished /\ TransportFailed) =>
    LET applicable ==
          IF CustomError THEN "customErrorHandler"
          ELSE IF GlobalError /\ ~call.skipGlobalHandlers THEN "globalErrorHandler"
          ELSE NoHook
    IN  /\ result.kind = "raised"
        /\ IsApiError(result.value)
        /\ result.value.originalError = error
        /\ \E i \in DOMAIN events :
             /\ events[i] = [e |-> "apiError", value |-> result.value]
             /\ applicable # NoHook =>
                  \E j \in DOMAIN events :
                    /\ j > i
                    /\ events[j].e = "hook"
                    /\ events[j].hook = applicable
                    /\ events[j].arg = result.value

\* C7: when the round trip succeeds the caller receives an ApiResponse whose
\* data, statusCode and message are the response's body, status and status
\* text, with success true; no ApiResponse has success false.
C7_ResponseEnvelope ==
  /\ (Finished /\ SuccessOutcome) =>
        result = [kind |-> "returned",
                  value |-> [data |-> response.data, success |-> TRUE,
                             statusCode |-> response.status,
                             message |-> response.statusText]]
  /\ \A i \in DOMAIN events : events[i].e = "apiResponse" => events[i].value.success

----------------------------------------------------------------------------
(* Properties of the auth header *)

\* the request has left the outbound interceptor for the transport
Dispatched == pc = "sent" \/ TransportSettled

UserRequestInterceptorSet == "requestInterceptor" \in DOMAIN config

\* the headers makeRequest submitted, before the outbound interceptor
SubmittedHeaders == events[1].config.headers

\* C1: while a token is set, the request that reaches the transport carries
\* the auth header if and only if useAuth is not false; in particular it
\* carries none when the call says useAuth: false.  (Clients without a user
\* request interceptor, which could rewrite the header itself.)
C1_UseAuthFalseSuppresses ==
  (Dispatched /\ ~UserRequestInterceptorSet /\ Truthy(hist.tokenRead)) =>
    (HasAuthHeader(request) <=> call.useAuth)

\* the call was issued after removeAuthToken with no setAuthToken since, and
\* the outbound interceptor found the token unset
IssuedAfterRemove == hist.issuedOp = "removed" /\ hist.tokenRead = Null

\* C10 as claimed: a call issued after removeAuthToken, with no later
\* setAuthToken, never carries the auth header on the outgoing request.
C10_NoAuthHeaderAfterRemove ==
  (Dispatched /\ IssuedAfterRemove) => ~HasAuthHeader(request)

\* C10 amended: such a call is not stamped by the client.  Its outgoing
\* request carries the auth header only when the call's own headers, the
\* default headers or the user's request interceptor put it there, and then
\* with their value.
C10_NoStampAfterRemove ==
  (Dispatched /\ IssuedAfterRemove) =>
    LET wrote == UserRequestInterceptorSet /\ events[2].did = "setAuth"
        kept  == ~UserRequestInterceptorSet \/ events[2].did \in {"pass", "addHeader"}
    IN  /\ HasAuthHeader(request) =>
             \/ wrote /\ request.headers[AuthKey] = "overridden"
             \/ /\ kept
                /\ AuthKey \in DOMAIN SubmittedHeaders
                /\ request.headers[AuthKey] = SubmittedHeaders[AuthKey]
        /\ (kept /\ AuthKey \notin DOMAIN SubmittedHeaders) => ~HasAuthHeader(request)
        /\ UserRequestInterceptorSet => events[2].given = SubmittedHeaders

\* an earlier request carried the header; after removeAuthToken this one
\* left without it
C10_Witness ==
  /\ Dispatched /\ IssuedAfterRemove
  /\ hist.carried
  /\ ~HasAuthHeader(request)

ErrorHooks   == {"customErrorHandler", "globalErrorHandler"}
SuccessHooks == {"customSuccessHandler", "globalSuccessHandler"}

\* the calls of hooks among hs that threw
ThrowingCalls(hs) ==
  {i \in DOMAIN events : events[i].e = "hook" /\ events[i].hook \in hs /\ events[i].threw}

\* the ApiErrors built during this call
BuiltApiErrors == {events[i].value : i \in {j \in DOMAIN events : events[j].e = "apiError"}}

\* C19: the auth header is stamped first, the user's request interceptor is
\* then given the stamped request, and what it returns is what goes to the
\* transport; so an interceptor that overwrites or deletes the auth header
\* decides what is sent. Nothing is sent while the user's interceptor is
\* awaited, nor when it rejects.
C19_StampThenUserInterceptor ==
  (UserRequestInterceptorSet /\ Len(events) >= 2) =>
    LET ev == events[2]
        T  == hist.tokenRead
    IN  /\ ev.e = "requestInterceptor"
        /\ ev.given = IF Truthy(T)
                      THEN Assign(SubmittedHeaders, AuthKey, config.authTokenPrefix \o T.v)
                      ELSE SubmittedHeaders
        /\ (ev.did = "pending") <=> pc = "requestInterceptor"
        /\ (ev.did \in {"pending"} \cup Rejections) <=> ~Dispatched
        /\ Dispatched =>
             /\ ev.did = "pass" => request.headers = ev.given
             /\ ev.did = "setAuth" => request.headers = Assign(ev.given, AuthKey, "overridden")
             /\ ev.did = "dropAuth" => request.headers = Delete(ev.given, AuthKey)
             /\ \A i \in DOMAIN events :
                  events[i].e = "transport" => events[i].sent = request

\* the token was stamped and the user's interceptor removed the header
C19_Witness ==
  /\ TransportSettled
  /\ UserRequestInterceptorSet
  /\ events[2].did = "dropAuth"
  /\ Truthy(hist.tokenRead)
  /\ AuthKey \in DOMAIN events[2].given
  /\ ~HasAuthHeader(request)

UserResponseInterceptorSet == "responseInterceptor" \in DOMAIN config

\* the transport's answers to this call that were responses
TransportResponses ==
  {events[i].got : i \in {j \in DOMAIN events : events[j].e = "transport"
                                                  /\ events[j].ok}}

\* the calls of the user's response interceptor during this call
ResponseInterceptorCalls ==
  {i \in DOMAIN events : events[i].e = "responseInterceptor"}

\* the ApiResponses built during this call
BuiltApiResponses ==
  {events[i].value : i \in {j \in DOMAIN events : events[j].e = "apiResponse"}}

\* C20: the user's response interceptor is called exactly once for a
\* successful transport response, with that response, and never for a failed
\* one; the ApiResponse given to the hooks and to the caller is built from
\* what the interceptor returned, not from the raw response.
C20_ResponseInterceptorOnce ==
  (UserResponseInterceptorSet
     /\ pc \in {"responseInterceptor", "resolved", "rejected", "done"}) =>
    /\ TransportResponses = {} => ResponseInterceptorCalls = {}
    /\ TransportResponses # {} =>
         /\ Cardinality(ResponseInterceptorCalls) = 1
         /\ \A i \in ResponseInterceptorCalls :
              /\ TransportResponses = {events[i].given}
              /\ (Finished /\ SuccessOutcome) =>
                   LET returned == IF events[i].did = "rewrite" THEN Rewritten
                                   ELSE events[i].given
                       expected == [data       |-> returned.data,
                                    success    |-> TRUE,
                                    statusCode |-> returned.status,
                                    message    |-> returned.statusText]
                   IN  /\ BuiltApiResponses = {expected}
                       /\ \A h \in SuccessHooks : HookArgs(h) \subseteq {expected}
                       /\ result.kind = "returned" => result.value = expected

\* the interceptor replaced a 200 response and the caller got the replacement
C20_Witness ==
  /\ Finished /\ UserResponseInterceptorSet
  /\ \E r \in TransportResponses : r.status = Num(200)
  /\ \E i \in ResponseInterceptorCalls : events[i].did = "rewrite"
  /\ result.kind = "returned"
  /\ result.value.data = Rewritten.data
  /\ result.value.statusCode = Num(202)
  /\ HookArgs("globalSuccessHandler") = {result.value}

\* the user's request or response interceptor threw during this call
InterceptorFailed ==
  \E i \in DOMAIN events :
    events[i].e \in {"requestInterceptor", "responseInterceptor"}
      /\ events[i].did \in Rejections

RequestInterceptorFailed ==
  \E i \in DOMAIN events :
    events[i].e = "requestInterceptor" /\ events[i].did \in Rejections

\* C21: when the user's request or response interceptor throws, the call
\* takes the failure branch: an ApiError is built from what was thrown, the
\* error hook selected for the call runs, the ApiError is raised to the
\* caller and no success hook is called; when it was the request
\* interceptor, nothing goes to the transport.
C21_InterceptorFailureIsApiError ==
  (Finished /\ InterceptorFailed) =>
    LET apiError == [message       |-> Or(OptMessage(error),
                                          Str("Unknown error occurred")),
                     statusCode    |-> Num(0),
                     originalError |-> error]
    IN  /\ BuiltApiErrors = {apiError}
        /\ ErrorHook # NoHook => HookArgs(ErrorHook) = {apiError}
        /\ result = Raise(apiError)
        /\ \A h \in SuccessHooks : HookCount(h) = 0
        /\ RequestInterceptorFailed => ~TransportSettled

\* C22: with token writes landing between the steps of calls in flight, the
\* outbound interceptor stamps from the token stored at the moment it runs,
\* not at the moment the verb was called: what leaves the stamp is the
\* submitted headers, with prefix + that token under the auth header name
\* when that token is not empty.
C22_StampReadsCurrentToken ==
  [][(pc = "submitted" /\ pc' # "submitted") =>
       LET stamped == IF UserRequestInterceptorSet THEN events'[2].given
                      ELSE request'.headers
       IN  /\ hist'.tokenRead = authToken
           /\ stamped = IF Truthy(authToken)
                        THEN Assign(request.headers, AuthKey,
                                    config.authTokenPrefix \o authToken.v)
                        ELSE request.headers]_vars

\* the verb was called after removeAuthToken; setAuthToken("token2") landed
\* before the outbound interceptor ran, and the request carries token2
C22_Witness ==
  /\ Dispatched /\ ~UserRequestInterceptorSet
  /\ hist.issuedOp = "removed"
  /\ hist.tokenRead = Str("token2")
  /\ AuthKey \notin DOMAIN SubmittedHeaders
  /\ request.headers = Assign(SubmittedHeaders, AuthKey,
                              config.authTokenPrefix \o "token2")

\* C23: while a non-empty token is set, the stamp overwrites a value already
\* under the auth header name, from the call's own headers or from the
\* default headers: without a user request interceptor the request leaves
\* with prefix + token, never with the value that was there.
C23_StampOverwrites ==
  (Dispatched /\ ~UserRequestInterceptorSet /\ Truthy(hist.tokenRead)
     /\ AuthKey \in DOMAIN SubmittedHeaders) =>
    /\ request.headers[AuthKey] = config.authTokenPrefix \o hist.tokenRead.v
    /\ request.headers[AuthKey] # SubmittedHeaders[AuthKey]
    /\ request.headers = Assign(SubmittedHeaders, AuthKey, request.headers[AuthKey])

\* the caller passed its own value under the auth header name and token1
\* replaced it
C23_Witness ==
  /\ Dispatched /\ ~UserRequestInterceptorSet
  /\ call.useAuth
  /\ "headers" \in DOMAIN events[1].options
  /\ AuthKey \in DOMAIN events[1].options.headers
  /\ events[1].options.headers[AuthKey] = "manual"
  /\ SubmittedHeaders[AuthKey] = "manual"
  /\ hist.tokenRead = Str("token1")
  /\ request.headers[AuthKey] = config.authTokenPrefix \o "token1"

\* no hook threw during this call
NoHookThrew == ThrowingCalls(ErrorHooks \cup SuccessHooks) = {}

\* C24: when no hook throws, what the caller gets is fixed by how the await
\* settled alone: the ApiResponse of the response, or the ApiError of the
\* rejection.  Which hooks are configured or passed, and skipGlobalHandlers,
\* do not enter into it.
C24_HooksDoNotChangeOutcome ==
  (Finished /\ NoHookThrew) =>
    /\ SuccessOutcome =>
         result = [kind |-> "returned",
                   value |-> [data       |-> response.data,
                              success    |-> TRUE,
                              statusCode |-> response.status,
                              message    |-> response.statusText]]
    /\ ~SuccessOutcome =>
         /\ result.kind = "raised"
         /\ IsApiError(result.value)
         /\ result.value = createApiError(error).value
         /\ result.value.originalError = error
         /\ result.value.statusCode =
              IF isAxiosError(error) /\ error.response # Undefined
              THEN error.response.status ELSE Num(0)

\* a 404 under skipGlobalHandlers with both error handlers present
C24_Witness ==
  /\ Finished /\ NoHookThrew /\ TransportFailed
  /\ call.skipGlobalHandlers /\ CustomError /\ GlobalError
  /\ result.kind = "raised"
  /\ result.value.statusCode = Num(404)
  /\ result.value.message = Str("Not found")

\* C17: when the error hook called for a failed call throws, the client does
\* not catch it: the caller gets the hook's exception, not the ApiError that
\* was built for the call.
C17_ErrorHookThrowPropagates ==
  Finished =>
    \A i \in ThrowingCalls(ErrorHooks) :
      /\ result = Raise(HookErr(events[i].hook))
      /\ ~IsApiError(result.value)
      /\ BuiltApiErrors = {events[i].arg}
      /\ result.value # events[i].arg

\* the transport failed and the global error handler threw
C17_Witness ==
  /\ Finished /\ TransportFailed
  /\ ThrowingCalls({"globalErrorHandler"}) # {}
  /\ result = Raise(HookErr("globalErrorHandler"))

\* C18: when the success hook called for a successful call throws, the
\* client does not catch it: the caller gets the hook's exception, no
\* ApiError is built and no error hook is called.
C18_SuccessHookThrowPropagates ==
  Finished =>
    \A i \in ThrowingCalls(SuccessHooks) :
      /\ result = Raise(HookErr(events[i].hook))
      /\ BuiltApiErrors = {}
      /\ \A h \in ErrorHooks : HookCount(h) = 0

\* the user's request interceptor, if any, left the auth header as it found it
AuthHeaderKept ==
  ~UserRequestInterceptorSet \/ events[2].did \in {"pass", "addHeader"}

\* C11 as claimed: when a token T is set and the call does not opt out, the
\* outgoing request carries the header authTokenKey with the value
\* authTokenPrefix followed by T.  (Clients without a user request
\* interceptor.)
C11_HeaderIsPrefixThenToken ==
  (Dispatched /\ ~UserRequestInterceptorSet /\ call.useAuth
     /\ hist.tokenRead.t = "string") =>
    /\ HasAuthHeader(request)
    /\ request.headers[AuthKey] = config.authTokenPrefix \o hist.tokenRead.v

\* C11 amended: when a non-empty token T is set, the call does not opt out
\* and no user request interceptor rewrites the header, the outgoing request
\* carries authTokenKey with authTokenPrefix followed by T: "Authorization"
\* and "Bearer " by default, the configured key and prefix otherwise.
C11_NonEmptyTokenStamped ==
  (Dispatched /\ AuthHeaderKept /\ call.useAuth /\ Truthy(hist.tokenRead)) =>
    /\ HasAuthHeader(request)
    /\ request.headers[AuthKey] = config.authTokenPrefix \o hist.tokenRead.v
    /\ IF /\ config.authTokenKey = CtorDefaults.authTokenKey
          /\ config.authTokenPrefix = CtorDefaults.authTokenPrefix
       THEN request.headers["Authorization"] = "Bearer " \o hist.tokenRead.v
       ELSE request.headers[CustomAuth.authTokenKey] =
              CustomAuth.authTokenPrefix \o hist.tokenRead.v

\* the default key and prefix with the token "token1"
C11_Witness ==
  /\ Dispatched /\ call.useAuth
  /\ hist.tokenRead = Str("token1")
  /\ "Authorization" \in DOMAIN request.headers
  /\ request.headers["Authorization"] = "Bearer token1"

\* C14: after any sequence of setAuthToken, removeAuthToken and verb calls,
\* getAuthToken is the argument of the last setAuthToken when no
\* removeAuthToken followed it, and null otherwise, a fresh client included;
\* no step of a verb call changes it.
C14_GetAuthTokenIsLastWrite ==
  /\ hist.tokenOp = "set" => getAuthToken = hist.tokenArg /\ getAuthToken \in Tokens
  /\ hist.tokenOp \in {"removed", "none"} => getAuthToken = Null

\* set, a call that carried the header, remove, a second call, set again
C14_Witness ==
  /\ Finished
  /\ hist.carried
  /\ hist.issuedOp = "removed"
  /\ hist.tokenOp = "set"
  /\ getAuthToken = Str("token2")

----------------------------------------------------------------------------
(* Default headers: writes to the defaults around the calls *)

HeaderKeys == {"X-Test", "X-Other"}

HeaderValues == {"value", "other"}

\* the base URLs a client is moved between
BaseURLs == {BaseURL, "https://new-url.com"}

\* clients with and without a default header given at construction
HeaderConfigs ==
  { [baseURL |-> BaseURL] @@ c :
      c \in OptField("defaultHeaders", {[k \in {"X-Test"} |-> "ctor"]}) }

\* calls with and without a header of their own
HeaderRequestConfigs ==
  { h : h \in OptField("headers", {[k \in {"X-Test"} |-> "call"]}) }

InitHeaders == \E cfg \in HeaderConfigs : Constructor(cfg) /\ service = NoService

NextHeaders ==
  \/ \E k \in HeaderKeys, v \in HeaderValues : setDefaultHeader(k, v)
  \/ \E k \in HeaderKeys : removeDefaultHeader(k)
  \/ \E b \in BaseURLs : updateBaseURL(b)
  \/ \E u \in URLs, rc \in HeaderRequestConfigs : Get(u, rc) /\ UNCHANGED service
  \/ RequestInterceptorStep
  \/ \E r \in OkResponses : TransportResponds(r)
  \/ \E e \in NetworkErrors : TransportFails(e)
  \/ ResponseInterceptorStep
  \/ Resolved(FALSE, FALSE)
  \/ Rejected(FALSE)

SpecHeaders == InitHeaders /\ [][NextHeaders]_vars

\* the headers the caller passed with this call
OwnHeaders ==
  IF "headers" \in DOMAIN events[1].options THEN events[1].options.headers ELSE Empty

\* C15: after setDefaultHeader(k, v) the defaults map k to v and a later call
\* carries k: v unless it passes k itself; after removeDefaultHeader(k) the
\* defaults lack k and so does a later call.
C15_DefaultHeaderFollowsLastWrite ==
  /\ hist.headerOp.op = "set" =>
        /\ hist.headerOp.key \in DOMAIN common
        /\ common[hist.headerOp.key] = hist.headerOp.value
  /\ hist.headerOp.op = "removed" => hist.headerOp.key \notin DOMAIN common
  /\ (Dispatched /\ hist.issuedHeaderOp.op = "set"
        /\ hist.issuedHeaderOp.key \notin DOMAIN OwnHeaders) =>
        /\ hist.issuedHeaderOp.key \in DOMAIN request.headers
        /\ request.headers[hist.issuedHeaderOp.key] = hist.issuedHeaderOp.value
  /\ (Dispatched /\ hist.issuedHeaderOp.op = "removed"
        /\ hist.issuedHeaderOp.key \notin DOMAIN OwnHeaders) =>
        hist.issuedHeaderOp.key \notin DOMAIN request.headers

----------------------------------------------------------------------------
(* A service in front of the client *)

MaxPathLen == 2

PathChars == {"/", "u"}

\* every string over PathChars of length n at most
RECURSIVE Paths(_)
Paths(n) ==
  IF n = 0 THEN {""}
  ELSE Paths(n - 1) \cup {p \o c : p \in Paths(n - 1), c \in PathChars}

\* the basePath argument: omitted, the documented "/users", or any short path
BasePaths ==
  {Undefined} \cup {Str(p) : p \in Paths(MaxPathLen) \cup {"/users", "users"}}

Endpoints == Paths(MaxPathLen) \cup {"/123", "123"}

\* the endpoints tried with the verbs other than get
FewEndpoints == {"", "/123", "u"}

ServiceClientConfigs ==
  { [baseURL |-> BaseURL],
    [baseURL |-> BaseURL, globalErrorHandler |-> "globalErrorHandler",
     globalSuccessHandler |-> "globalSuccessHandler"] }

\* the config argument of a service verb, which may be left out
ServiceOptions ==
  {Undefined, [customSuccessHandler |-> "customSuccessHandler"],
   [skipGlobalHandlers |-> TRUE, timeout |-> 5000]}

InitService ==
  \E cfg \in ServiceClientConfigs, bp \in BasePaths :
    Constructor(cfg) /\ ApiServiceConstructor(bp)

NextService ==
  \/ \E ep \in Endpoints, o \in ServiceOptions : ServiceGet(ep, o)
  \/ \E ep \in FewEndpoints, d \in Payloads, o \in ServiceOptions : ServicePost(ep, d, o)
  \/ \E ep \in FewEndpoints, d \in Payloads, o \in ServiceOptions : ServicePut(ep, d, o)
  \/ \E ep \in FewEndpoints, d \in Payloads, o \in ServiceOptions : ServicePatch(ep, d, o)
  \/ \E ep \in FewEndpoints, o \in ServiceOptions : ServiceDelete(ep, o)
  \/ RequestInterceptorStep
  \/ \E r \in OkResponses : TransportResponds(r)
  \/ \E e \in NotFoundErrors : TransportFails(e)
  \/ ResponseInterceptorStep
  \/ Resolved(FALSE, FALSE)
  \/ Rejected(FALSE)

SpecService == InitService /\ [][NextService]_vars

\* a service verb has been forwarded to the client
Forwarded == service.via.verb # "none"

\* the URL the client was called with
CalledUrl == events[1].config.url

NoSlashRun(s) ==
  \A i \in 1..(Len(s) - 1) : ~(SubSeq(s, i, i) = "/" /\ SubSeq(s, i + 1, i + 1) = "/")

\* C12: for every base path and endpoint, buildUrl gives the same URL with
\* and without a leading slash on the endpoint; the URL starts with a single
\* slash and has no run of slashes; "/users" with "/123" or "123" gives
\* "/users/123"; a base path without a leading slash behaves as with one.
C12_BuildUrlSlashes ==
  Forwarded =>
    LET ep == service.via.endpoint
        bp == service.basePath
    IN  /\ CalledUrl = buildUrl(bp, "/" \o ep)
        /\ StartsWithSlash(ep) => CalledUrl = buildUrl(bp, Slice1(ep))
        /\ StartsWithSlash(CalledUrl)
        /\ NoSlashRun(CalledUrl)
        /\ (service.given \in {Str("/users"), Str("users")} /\ ep \in {"/123", "123"})
             => CalledUrl = "/users/123"
        /\ (service.given # Undefined /\ ~StartsWithSlash(service.given.v)) =>
             CalledUrl = buildUrl(BasePathField(Str("/" \o service.given.v)), ep)

\* base path "users", endpoint "123"
C12_Witness ==
  /\ Forwarded
  /\ service.given = Str("users")
  /\ service.via.endpoint = "123"
  /\ CalledUrl = "/users/123"

\* C13: with base path "/users", a verb call with the empty endpoint is sent
\* to "/users", without a trailing slash.
C13_EmptyEndpointIsBasePath ==
  (TransportSettled /\ Forwarded /\ service.given = Str("/users")
     /\ service.via.endpoint = "") =>
    request.url = "/users"

\* the client verb's method for the service verb forwarded
ClientMethod ==
  CASE service.via.verb = "get"    -> "GET"
    [] service.via.verb = "post"   -> "POST"
    [] service.via.verb = "put"    -> "PUT"
    [] service.via.verb = "patch"  -> "PATCH"
    [] service.via.verb = "delete" -> "DELETE"

\* the requestConfig the client verb hands to makeRequest when it is called
\* with the service verb's data and options
ClientOptions ==
  IF service.via.verb \in {"get", "delete"}
  THEN Default(service.via.options, Empty)
  ELSE [data |-> service.via.data] @@ Default(service.via.options, Empty)

\* the hook calls of this call, in order
HookCalls == SelectSeq(events, LAMBDA ev : ev.e = "hook")

\* C16: a service verb call is the client verb called with
\* url = buildUrl(endpoint) and the same data and options: the same request
\* goes to the transport, the same hooks are called and the same outcome is
\* delivered.
C16_ServiceIsClientOnBuiltUrl ==
  Forwarded =>
    LET url == buildUrl(service.basePath, service.via.endpoint)
        rc  == ClientOptions
        cfg == MergeDefaults(PrepareConfig(ClientMethod, url, rc))
    IN  /\ events[1] = [e |-> "request", options |-> rc, config |-> cfg]
        /\ call = Destructure(rc)
        /\ Dispatched => request = cfg
        /\ (Finished /\ SuccessOutcome) =>
             /\ result = Return(ApiResponse(response))
             /\ HookCalls = IF SuccessHook = NoHook THEN <<>>
                            ELSE <<HookCall(SuccessHook, ApiResponse(response), FALSE)>>
        /\ (Finished /\ ~SuccessOutcome) =>
             /\ result = Raise(createApiError(error).value)
             /\ HookCalls = IF ErrorHook = NoHook THEN <<>>
                            ELSE <<HookCall(ErrorHook, createApiError(error).value, FALSE)>>

\* a post through the "/users" service with data and a custom success handler
C16_Witness ==
  /\ Forwarded /\ Finished
  /\ service.given = Str("/users")
  /\ service.via.verb = "post"
  /\ service.via.endpoint = "/123"
  /\ service.via.data # Undefined
  /\ request.url = "/users/123"
  /\ request.data = service.via.data
  /\ result.kind = "returned"
  /\ HookCount("customSuccessHandler") = 1

----------------------------------------------------------------------------
(* createApiError on its own: every shape of caught value *)

ErrorMessages == {Undefined, Str(""), Str("Network Error")}

BodyValues ==
  {Undefined, Null, Str("<html>"), Body(Undefined), Body(Null), Body(Str("")),
   Body(Str("Not found"))}

ErrorResponses ==
  {ErrResponse(Num(st), d) : st \in {400, 404, 500}, d \in BodyValues}

\* what a catch block can be handed: AxiosErrors with and without a response,
\* other Errors, and any other thrown value
ClassifyInputs ==
  {AxiosErr(m, r) : m \in ErrorMessages, r \in {Undefined} \cup ErrorResponses}
    \cup {PlainErr(m) : m \in ErrorMessages}
    \cup {Str("boom"), Undefined, Null}

InitClassify ==
  /\ config = [baseURL |-> BaseURL] @@ CtorDefaults
  /\ defaults = [baseURL |-> BaseURL, timeout |-> CtorDefaults.timeout]
  /\ instanceHeaders = Empty
  /\ common = AxiosCommon
  /\ authToken = Null
  /\ pc = "classify"
  /\ call = Empty
  /\ request = Empty
  /\ response = Undefined
  /\ error \in ClassifyInputs
  /\ events = <<>>
  /\ result = [kind |-> "none"]
  /\ awaited = "rejected"
  /\ service = NoService
  /\ hist = [carried |-> FALSE, tokenRead |-> Undefined, tokenOp |-> "none",
             tokenArg |-> Null, issuedOp |-> "none",
             headerOp |-> NoHeaderOp, issuedHeaderOp |-> NoHeaderOp]

\* createApiError(error), as the first statement of the catch block
Classify ==
  /\ pc = "classify"
  /\ LET built == createApiError(error)
     IN  result' = IF built.threw THEN Raise(built.value)
                   ELSE [kind |-> "classified", value |-> built.value]
  /\ pc' = "classified"
  /\ UNCHANGED <<service, config, defaults, instanceHeaders, common, authToken, call, request, response,
                 error, events, awaited, hist>>

NextClassify == Classify

SpecClassify == InitClassify /\ [][NextClassify]_vars

Classified == pc = "classified"

WithResponse == isAxiosError(error) /\ error.response # Undefined

\* C8 as claimed: for a transport error that carries a response, the message
\* is the body's message field when the body has one, otherwise the error's
\* own message, otherwise "Request failed"; the statusCode is the response's.
C8_BodyMessageExactly ==
  (Classified /\ WithResponse) =>
    LET bodyMessage == OptMessage(error.response.data)
    IN  /\ result.kind = "classified"
        /\ result.value.statusCode = error.response.status
        /\ result.value.message =
             (IF bodyMessage # Undefined THEN bodyMessage
              ELSE IF error.message # Undefined THEN error.message
              ELSE Str("Request failed"))

\* C8 amended: the body's message is used when it is not empty (truthy),
\* otherwise the error's own message when that is not empty, otherwise
\* "Request failed"; the statusCode is the response's.
C8_FirstNonEmptyMessage ==
  (Classified /\ WithResponse) =>
    LET bodyMessage == OptMessage(error.response.data)
    IN  /\ result.kind = "classified"
        /\ result.value.statusCode = error.response.status
        /\ Truthy(bodyMessage) => result.value.message = bodyMessage
        /\ (~Truthy(bodyMessage) /\ Truthy(error.message)) =>
             result.value.message = error.message
        /\ (~Truthy(bodyMessage) /\ ~Truthy(error.message)) =>
             result.value.message = Str("Request failed")

\* the test's case: 404 with the body {message: "Not found"}
C8_Witness ==
  /\ Classified /\ WithResponse
  /\ error.response = ErrResponse(Num(404), Body(Str("Not found")))
  /\ error.message = Str("Network Error")
  /\ result.value.message = Str("Not found")
  /\ result.value.statusCode = Num(404)

\* C9, for caught values that are not transport-shaped (any thrown value):
\* the ApiError has statusCode 0, the value's own message or else "Unknown
\* error occurred", and the raw value as originalError.
C9_ThrownValueClassified ==
  (Classified /\ ~isAxiosError(error)) =>
    /\ result.kind = "classified"
    /\ result.value.statusCode = Num(0)
    /\ result.value.originalError = error
    /\ result.value.message = Or(OptMessage(error), Str("Unknown error occurred"))

====
